---------------------------- MODULE Spec2Model ----------------------------
(***************************************************************************)
(* Market-order fill allocation and valuation of src/util/orders.ts:       *)
(* buildMarketOrders (lines 112-159) and sumTakerAssetFillableOrders       *)
(* (lines 161-177).                                                        *)
(*                                                                         *)
(* BigNumber values are modelled as non-negative rationals                 *)
(* [num |-> n, den |-> d] in lowest terms.  plus, minus, multipliedBy and  *)
(* the comparisons of bignumber.js are exact; div rounds the quotient      *)
(* half-up to DECIMAL_PLACES decimal places; integerValue(ROUND_CEIL)      *)
(* rounds up to an integer; toString writes the decimal digits out.        *)
(*                                                                         *)
(* The model keeps DecimalPlaces places where the library keeps more, and  *)
(* divides only by 1, 2 and 3: a quotient of the model either ends within  *)
(* one place or never ends, so div rounds in the model exactly where it    *)
(* rounds in the program.                                                  *)
(***************************************************************************)
EXTENDS Integers, Sequences, FiniteSets

VARIABLES
    pc,        \* "start" | "built" | "summed": position of the caller
    side,      \* OrderSide passed to buildMarketOrders
    amount,    \* params.amount (integer number of base units)
    given,     \* params.orders as the caller built it, before any call
    orders,    \* the caller's array object params.orders (sorted in place)
    decimals,  \* getKnownTokens(): asset data -> decimals
    local,     \* locals of buildMarketOrders when its loop ended
    ret,       \* [ordersToFill, amounts, canBeFilled] returned to the caller
    sumArgs,   \* arguments of the call to sumTakerAssetFillableOrders
    sumResult  \* its outcome: a returned value or a thrown Error

vars == <<pc, side, amount, given, orders, decimals, local, ret, sumArgs, sumResult>>

----------------------------------------------------------------------------
(* Bounds of the model *)

MaxOrders == 2       \* candidates handed to buildMarketOrders, orders handed to the sum
MaxAmount == 5       \* params.amount
MaxFill == 3         \* a fill amount handed to sumTakerAssetFillableOrders
DecimalPlaces == 2   \* decimal places BigNumber div keeps

None == "none"      \* no side: no call was made yet
Null == <<>>        \* a nullable BigNumber is <<>> (null) or <<value>>
Sides == {"Buy", "Sell"}
Tokens == {"base", "quote"}

----------------------------------------------------------------------------
(* BigNumber arithmetic *)

RECURSIVE GCD(_, _)
GCD(a, b) == IF b = 0 THEN a ELSE GCD(b, a % b)

Rat(n, d) == LET g == GCD(n, d) IN [num |-> n \div g, den |-> d \div g]

RECURSIVE Pow10(_)
Pow10(k) == IF k = 0 THEN 1 ELSE 10 * Pow10(k - 1)

ZERO == Rat(0, 1)
FromInt(n) == Rat(n, 1)

plus(a, b) == Rat(a.num * b.den + b.num * a.den, a.den * b.den)
minus(a, b) == Rat(a.num * b.den - b.num * a.den, a.den * b.den)
multipliedBy(a, b) == Rat(a.num * b.num, a.den * b.den)
isLessThan(a, b) == a.num * b.den < b.num * a.den
isGreaterThan(a, b) == isLessThan(b, a)
eq(a, b) == a.num * b.den = b.num * a.den

\* a.comparedTo(b): -1, 0 or 1
comparedTo(a, b) == IF isLessThan(a, b) THEN -1 ELSE IF isLessThan(b, a) THEN 1 ELSE 0

\* a.div(b): the quotient rounded half-up to DecimalPlaces decimal places
div(a, b) ==
    LET scale == Pow10(DecimalPlaces)
        n == a.num * b.den * scale
        d == a.den * b.num
    IN  Rat((2 * n + d) \div (2 * d), scale)

\* a.toString(): the digits of a and the number of them behind the point
toString(a) ==
    LET e == CHOOSE e \in 0..4 :
                 /\ (a.num * Pow10(e)) % a.den = 0
                 /\ \A f \in 0..(e - 1) : (a.num * Pow10(f)) % a.den # 0
    IN  [digits |-> (a.num * Pow10(e)) \div a.den, places |-> e]

\* new BigNumber(str)
fromString(str) == Rat(str.digits, Pow10(str.places))

\* a.integerValue(BigNumber.ROUND_CEIL)
integerValueCeil(a) == FromInt((a.num + a.den - 1) \div a.den)

----------------------------------------------------------------------------
(* Token unit conversions (util/tokens) *)

tokenAmountInUnitsToBigNumber(a, dec) == Rat(a.num, a.den * Pow10(dec))
unitsInTokenAmount(units, dec) == multipliedBy(fromString(units), FromInt(Pow10(dec)))

----------------------------------------------------------------------------
(* Inputs: UIOrder candidates and the known-token table *)

Prices == {Rat(1, 2), Rat(3, 2), Rat(2, 1)}

\* size and filled of a UIOrder: filled is null or a BigNumber with filled <= size
\* never filled, filled with zero, partly filled, wholly filled
Fills == {[size |-> 1, filled |-> Null], [size |-> 2, filled |-> <<0>>],
          [size |-> 2, filled |-> <<1>>], [size |-> 2, filled |-> <<2>>]}

\* getKnownTokens(): the decimals of the two tokens of the market
KnownTokens == {d \in [Tokens -> 0..1] : d["base"] = 0 \/ d["quote"] = 0}

\* The signed order the k-th candidate wraps; the taker buys the maker's base
\* token on a Buy and sells base for the maker's quote token on a Sell.
RawOrder(k, s) ==
    [salt |-> k,
     makerAssetData |-> IF s = "Buy" THEN "base" ELSE "quote",
     takerAssetData |-> IF s = "Buy" THEN "quote" ELSE "base",
     makerAssetAmount |-> FromInt(k),
     takerAssetAmount |-> FromInt((k % 3) + 1)]

UIOrder(k, s, p, sf) ==
    [price |-> p,
     size |-> FromInt(sf.size),
     filled |-> IF sf.filled = Null THEN Null ELSE <<FromInt(sf.filled[1])>>,
     rawOrder |-> RawOrder(k, s)]

UIOrderLists(s) ==
    UNION {{[k \in 1..n |-> UIOrder(k, s, ps[k], fs[k])] :
                ps \in [1..n -> Prices], fs \in [1..n -> Fills]} : n \in 0..MaxOrders}

----------------------------------------------------------------------------
(* buildMarketOrders *)

compareFnReversed(a, b, s) ==
    IF s = "Buy" THEN comparedTo(b.price, a.price) ELSE comparedTo(a.price, b.price)

\* The comparator handed to orders.sort
compareFn(a, b, s) ==
    IF s = "Buy" THEN comparedTo(a.price, b.price) ELSE comparedTo(b.price, a.price)

\* x placed behind every element that does not compare greater than it
RECURSIVE insert(_, _, _)
insert(sorted, x, s) ==
    IF sorted = <<>> THEN <<x>>
    ELSE IF compareFn(Head(sorted), x, s) > 0 THEN <<x>> \o sorted
    ELSE <<Head(sorted)>> \o insert(Tail(sorted), x, s)

\* Array.prototype.sort with compareFn: a stable sort
RECURSIVE sort(_, _)
sort(arr, s) ==
    IF arr = <<>> THEN <<>>
    ELSE insert(sort(SubSeq(arr, 1, Len(arr) - 1), s), arr[Len(arr)], s)

availableIgnoringFilled(order) == order.size

available(order) ==
    IF order.filled # Null THEN minus(order.size, order.filled[1]) ELSE order.size

loopConditionLte(i, n, filledAmount, amt) ==
    i < n /\ ~isGreaterThan(filledAmount, amt)

loopConditionAll(i, n, filledAmount, amt) == i < n

loopCondition(i, n, filledAmount, amt) ==
    i < n /\ isLessThan(filledAmount, amt)

exceeds(filledAmount, avail, amt) == isGreaterThan(plus(filledAmount, avail), amt)

pushedUncapped(filledAmount, avail, amt) == avail

\* the value pushed onto amounts for the order being visited
pushed(filledAmount, avail, amt) ==
    IF exceeds(filledAmount, avail, amt) THEN minus(amt, filledAmount) ELSE avail

nextFilledAmountStale(filledAmount, avail, amt) ==
    IF exceeds(filledAmount, avail, amt) THEN filledAmount ELSE plus(filledAmount, avail)

\* filledAmount after the order being visited
nextFilledAmount(filledAmount, avail, amt) ==
    IF exceeds(filledAmount, avail, amt) THEN amt ELSE plus(filledAmount, avail)

\* amounts[i] on the Buy side: maker base units -> taker (quote) base units
buyAmountInTakerUnits(amt, order, dec) ==
    LET makerTokenDecimals == dec[order.rawOrder.makerAssetData]
        takerTokenDecimals == dec[order.rawOrder.takerAssetData]
        buyAmount == tokenAmountInUnitsToBigNumber(amt, makerTokenDecimals)
    IN  unitsInTokenAmount(toString(multipliedBy(buyAmount, order.price)), takerTokenDecimals)

recordedAmount(amt, order, s, dec) ==
    IF s = "Buy" THEN buyAmountInTakerUnits(amt, order, dec) ELSE amt

\* one pass of the for loop body, on the locals l
loopBody(l, sortedOrders, s, amt, dec) ==
    LET order == sortedOrders[l.i + 1]
        avail == available(order)
        base == pushed(l.filledAmount, avail, amt)
    IN  [i |-> l.i + 1,
         ordersToFill |-> Append(l.ordersToFill, order.rawOrder),
         pushed |-> Append(l.pushed, base),
         amounts |-> Append(l.amounts, recordedAmount(base, order, s, dec)),
         filledAmount |-> nextFilledAmount(l.filledAmount, avail, amt)]

RECURSIVE loop(_, _, _, _, _)
loop(l, sortedOrders, s, amt, dec) ==
    IF loopCondition(l.i, Len(sortedOrders), l.filledAmount, amt)
    THEN loop(loopBody(l, sortedOrders, s, amt, dec), sortedOrders, s, amt, dec)
    ELSE l

initialLocals == [i |-> 0, ordersToFill |-> <<>>, pushed |-> <<>>, amounts |-> <<>>,
                  filledAmount |-> ZERO]

canBeFilled(filledAmount, amt) == eq(filledAmount, amt)

\* a.integerValue(BigNumber.ROUND_FLOOR), as lines 53 and 80 round
roundFloor(a) == FromInt(a.num \div a.den)

round(a) == integerValueCeil(a)

roundedAmounts(amounts) == [k \in 1..Len(amounts) |-> round(amounts[k])]

BuildMarketOrders ==
    /\ pc = "start"
    \* orders.sort sorts the caller's array in place; sortedOrders is that array
    /\ orders' = sort(orders, side)
    /\ local' = loop(initialLocals, orders', side, FromInt(amount), decimals)
    /\ ret' = [ordersToFill |-> local'.ordersToFill,
               amounts |-> roundedAmounts(local'.amounts),
               canBeFilled |-> canBeFilled(local'.filledAmount, FromInt(amount))]
    /\ pc' = "built"
    /\ UNCHANGED <<side, amount, given, decimals, sumArgs, sumResult>>

----------------------------------------------------------------------------
(* sumTakerAssetFillableOrders *)

MakerAmounts == 1..2
TakerAmounts == 1..3

Orders == [makerAssetAmount : {FromInt(n) : n \in MakerAmounts},
           takerAssetAmount : {FromInt(n) : n \in TakerAmounts}]

SeqsUpTo(S, n) == UNION {[1..k -> S] : k \in 0..n}

lengthsDifferOneWay(ordersToFill, amounts) == Len(ordersToFill) > Len(amounts)

lengthsDiffer(ordersToFill, amounts) == Len(ordersToFill) # Len(amounts)

unitPriceInverted(s, order) ==
    IF s = "Buy" THEN FromInt(1) ELSE div(order.takerAssetAmount, order.makerAssetAmount)

\* the price applied to one order's fill amount
unitPrice(s, order) ==
    IF s = "Buy" THEN FromInt(1) ELSE div(order.makerAssetAmount, order.takerAssetAmount)

\* ordersToFill.reduce(..., ZERO) over the first n orders
RECURSIVE reduce(_, _, _, _)
reduce(s, ordersToFill, amounts, n) ==
    IF n = 0 THEN ZERO
    ELSE plus(reduce(s, ordersToFill, amounts, n - 1),
              multipliedBy(amounts[n], unitPrice(s, ordersToFill[n])))

\* an outcome: an Error was thrown (and no value returned), or v was returned
Threw == [threw |-> TRUE, value |-> <<>>]
Returned(v) == [threw |-> FALSE, value |-> <<v>>]

sumTakerAssetFillableOrders(s, ordersToFill, amounts) ==
    IF lengthsDiffer(ordersToFill, amounts) THEN Threw
    ELSE IF Len(ordersToFill) = 0 THEN Returned(ZERO)
    ELSE Returned(reduce(s, ordersToFill, amounts, Len(ordersToFill)))

SumCall(s, ordersToFill, amounts) ==
    /\ sumArgs' = [side |-> s, ordersToFill |-> ordersToFill, amounts |-> amounts]
    /\ sumResult' = sumTakerAssetFillableOrders(s, ordersToFill, amounts)
    /\ pc' = "summed"
    /\ UNCHANGED <<side, amount, given, orders, decimals, local, ret>>

\* the caller values the plan it was handed
SumPlan ==
    /\ pc = "built"
    /\ SumCall(side, ret.ordersToFill, ret.amounts)

\* any call: a side and two lists of any lengths
SumArguments ==
    [side : Sides,
     ordersToFill : SeqsUpTo(Orders, MaxOrders),
     amounts : SeqsUpTo({FromInt(n) : n \in 0..MaxFill}, MaxOrders)]

\* a caller hands over the arguments it holds
SumGiven ==
    /\ pc = "start"
    /\ sumArgs \in SumArguments
    /\ SumCall(sumArgs.side, sumArgs.ordersToFill, sumArgs.amounts)

----------------------------------------------------------------------------
(* Specifications *)

NoLocals == initialLocals
NoPlan == [ordersToFill |-> <<>>, amounts |-> <<>>, canBeFilled |-> FALSE]
NoCall == [side |-> None, ordersToFill |-> <<>>, amounts |-> <<>>]
NoResult == [threw |-> FALSE, value |-> <<>>]

Init ==
    /\ pc = "start"
    /\ side \in Sides
    /\ amount \in (0..MaxAmount) \cup {10}
    /\ given \in UIOrderLists(side)
    /\ orders = given
    /\ decimals \in KnownTokens
    /\ local = NoLocals
    /\ ret = NoPlan
    /\ sumArgs = NoCall
    /\ sumResult = NoResult

Next == BuildMarketOrders \/ SumPlan

Spec == Init /\ [][Next]_vars

InitSum ==
    /\ pc = "start"
    /\ side = "Buy"
    /\ amount = 0
    /\ given = <<>>
    /\ orders = given
    /\ decimals = [t \in Tokens |-> 0]
    /\ local = NoLocals
    /\ ret = NoPlan
    /\ sumArgs \in SumArguments
    /\ sumResult = NoResult

NextSum == SumGiven

SpecSum == InitSum /\ [][NextSum]_vars


----------------------------------------------------------------------------
(* Vocabulary of the claims *)

Target == FromInt(amount)
Plan == ret.ordersToFill
Called == pc # "start"

leq(a, b) == ~isLessThan(b, a)

RECURSIVE SumOf(_)
SumOf(seq) == IF seq = <<>> THEN ZERO ELSE plus(Head(seq), SumOf(Tail(seq)))

\* available = size - filled, or size when filled is absent
AvailableOf(c) == IF c.filled = Null THEN c.size ELSE minus(c.size, c.filled[1])

Candidates == {given[k] : k \in 1..Len(given)}
TotalAvailable == SumOf([k \in 1..Len(given) |-> AvailableOf(given[k])])

\* the candidate that wraps a raw order of the plan
CandidateOf(raw) == CHOOSE c \in Candidates : c.rawOrder = raw

\* the available amounts of the first n orders of the plan, summed
PlanAvailable(n) == SumOf([k \in 1..n |-> AvailableOf(CandidateOf(Plan[k]))])

\* p is a strictly better price than q for the requester
Better(p, q) == IF side = "Buy" THEN isLessThan(p, q) ELSE isGreaterThan(p, q)

\* the plan is a prefix of the candidates ranked from best to worst price
PrefixOfRanking ==
    /\ \A k \in 1..Len(Plan) : Plan[k] \in {c.rawOrder : c \in Candidates}
    /\ \A j, k \in 1..Len(Plan) : j # k => Plan[j] # Plan[k]
    /\ \A j, k \in 1..Len(Plan) :
          j < k => ~Better(CandidateOf(Plan[k]).price, CandidateOf(Plan[j]).price)
    /\ \A c \in Candidates : \A k \in 1..Len(Plan) :
          c.rawOrder \notin {Plan[j] : j \in 1..Len(Plan)}
              => ~Better(c.price, CandidateOf(Plan[k]).price)

\* b base units of candidate c's maker token, priced in taker (quote) base units
QuoteUnits(b, c) ==
    Rat(b.num * c.price.num * Pow10(decimals[c.rawOrder.takerAssetData]),
        b.den * c.price.den * Pow10(decimals[c.rawOrder.makerAssetData]))

\* the amount of order k of the plan before it is rounded
Unrounded(k) ==
    IF side = "Buy" THEN QuoteUnits(local.pushed[k], CandidateOf(Plan[k]))
    ELSE local.pushed[k]

ExactQuoteCost == SumOf([k \in 1..Len(Plan) |-> QuoteUnits(local.pushed[k], CandidateOf(Plan[k]))])

IsInteger(a) == a.den = 1

Min(a, b) == IF isLessThan(a, b) THEN a ELSE b

----------------------------------------------------------------------------
(* Claims about buildMarketOrders, under Spec *)

\* C1: the base-unit fill amounts pushed by buildMarketOrders (before the Buy
\* conversion and the rounding) sum to at most targetAmount, and to exactly
\* targetAmount when the returned flag is true.
C1_Conservation ==
    Called =>
        /\ leq(SumOf(local.pushed), Target)
        /\ ret.canBeFilled => eq(SumOf(local.pushed), Target)

\* a fully filled plan of two orders whose last order is filled in part
C1_Witness ==
    /\ pc = "built"
    /\ ret.canBeFilled
    /\ Len(Plan) = 2
    /\ isLessThan(local.pushed[2], AvailableOf(CandidateOf(Plan[2])))

\* C2: after the call the caller's candidate list holds the same candidates in
\* the same order as before the call.
C2_InputsUnchanged == orders = given

\* C3: when the candidates' total available amount is below targetAmount, the
\* flag is false and the plan holds every candidate, each filled with its whole
\* available amount.
C3_Exhaustion ==
    (Called /\ isLessThan(TotalAvailable, Target)) =>
        /\ ~ret.canBeFilled
        /\ Len(Plan) = Len(given)
        /\ {Plan[k] : k \in 1..Len(Plan)} = {c.rawOrder : c \in Candidates}
        /\ \A k \in 1..Len(Plan) :
              local.pushed[k] = AvailableOf(CandidateOf(Plan[k]))

\* two candidates, one of them partly filled elsewhere, that cannot cover the target
C3_Witness ==
    /\ pc = "built"
    /\ Len(given) = 2
    /\ \E k \in 1..2 : given[k].filled = <<FromInt(1)>>
    /\ isLessThan(TotalAvailable, Target)

\* C4: the returned orders are a prefix of the candidates ranked by price
\* (ascending for Buy, descending for Sell): they are distinct candidates in
\* non-worsening price order, and no candidate left out has a strictly better
\* price than one that is in the plan.
C4_BestPriceFirst == Called => PrefixOfRanking

\* the caller's list was not ranked, and the plan leaves a candidate out
C4_Witness ==
    /\ pc = "built"
    /\ Len(Plan) = 1
    /\ Len(given) = 2
    /\ Better(given[2].price, given[1].price)

\* C5: when the total available amount is at least targetAmount the flag is
\* true and the plan is the shortest prefix of the ranking whose cumulative
\* available amount reaches targetAmount.
C5_MinimalPrefix ==
    (Called /\ leq(Target, TotalAvailable)) =>
        /\ ret.canBeFilled
        /\ PrefixOfRanking
        /\ leq(Target, PlanAvailable(Len(Plan)))
        /\ Len(Plan) > 0 => isLessThan(PlanAvailable(Len(Plan) - 1), Target)

\* both candidates are needed, and together they offer more than the target
C5_Witness ==
    /\ pc = "built"
    /\ Len(Plan) = 2
    /\ isLessThan(Target, TotalAvailable)

\* C8: with targetAmount = 0 the plan is empty and the flag true; with no
\* candidates the plan is empty and the flag is (targetAmount = 0).
C8_EdgeCases ==
    /\ (Called /\ amount = 0) =>
          Plan = <<>> /\ ret.amounts = <<>> /\ ret.canBeFilled
    /\ (Called /\ given = <<>>) =>
          Plan = <<>> /\ ret.amounts = <<>> /\ (ret.canBeFilled <=> amount = 0)

\* nothing is asked of two candidates that have something to offer
C8_Witness ==
    /\ pc = "built"
    /\ amount = 0
    /\ Len(given) = 2
    /\ isGreaterThan(TotalAvailable, ZERO)

\* C9: every returned fill amount is an integer, at least the unrounded amount
\* of its order and less than that amount plus 1; and on the Buy side the sum
\* of the plan never under-reports the exact quote cost and over-reports it by
\* less than one base unit per order of the plan.
C9_CeilingRounding ==
    /\ Called => \A k \in 1..Len(ret.amounts) :
          /\ IsInteger(ret.amounts[k])
          /\ leq(Unrounded(k), ret.amounts[k])
          /\ isLessThan(ret.amounts[k], plus(Unrounded(k), FromInt(1)))
    /\ (pc = "summed" /\ side = "Buy") =>
          /\ ~sumResult.threw
          /\ leq(ExactQuoteCost, sumResult.value[1])
          /\ \/ isLessThan(sumResult.value[1], plus(ExactQuoteCost, FromInt(Len(Plan))))
             \/ Len(Plan) = 0 /\ eq(sumResult.value[1], ExactQuoteCost)

\* a Buy plan of two orders, both rounded up, has been summed
C9_Witness ==
    /\ pc = "summed"
    /\ side = "Buy"
    /\ Len(Plan) = 2
    /\ \A k \in 1..2 : isLessThan(Unrounded(k), ret.amounts[k])
    /\ isGreaterThan(sumResult.value[1], plus(ExactQuoteCost, FromInt(1)))

\* C10: the plan's orders and amounts have the same length and are aligned;
\* every selected order but the last is filled with its whole available
\* amount, and the last with min(available, targetAmount - filled so far).
C10_OnlyLastPartial ==
    Called =>
        LET n == Len(Plan) IN
        /\ Len(ret.amounts) = n
        /\ Len(local.pushed) = n
        /\ \A k \in 1..n : ret.amounts[k] = integerValueCeil(Unrounded(k))
        /\ \A k \in 1..(n - 1) : local.pushed[k] = AvailableOf(CandidateOf(Plan[k]))
        /\ n > 0 => local.pushed[n] =
               Min(AvailableOf(CandidateOf(Plan[n])),
                   minus(Target, SumOf(SubSeq(local.pushed, 1, n - 1))))

\* the first order is filled whole and the second, the last, in part
C10_Witness ==
    /\ pc = "built"
    /\ Len(Plan) = 2
    /\ isGreaterThan(local.pushed[1], ZERO)
    /\ isLessThan(local.pushed[2], AvailableOf(CandidateOf(Plan[2])))
    /\ isGreaterThan(local.pushed[2], ZERO)

----------------------------------------------------------------------------
(* Claims about sumTakerAssetFillableOrders, under SpecSum *)

Summed == pc = "summed"
SameLengths == Len(sumArgs.ordersToFill) = Len(sumArgs.amounts)

\* makerAssetAmount / takerAssetAmount as a fraction
ExactQuotient(order) ==
    Rat(order.makerAssetAmount.num * order.takerAssetAmount.den,
        order.makerAssetAmount.den * order.takerAssetAmount.num)

\* the multiple of 10^-DecimalPlaces nearest to the fraction, a tie going up
RoundedQuotient(order) ==
    LET q == ExactQuotient(order)
        scale == Pow10(DecimalPlaces)
        k == CHOOSE j \in 0..((q.num * scale) \div q.den + 1) :
                 /\ (2 * j - 1) * q.den <= 2 * q.num * scale
                 /\ 2 * q.num * scale < (2 * j + 1) * q.den
    IN  Rat(k, scale)

\* the sum of amounts[i] x price[i] the arguments call for
ExactTotal ==
    SumOf([i \in 1..Len(sumArgs.ordersToFill) |->
              IF sumArgs.side = "Buy" THEN sumArgs.amounts[i]
              ELSE multipliedBy(sumArgs.amounts[i], ExactQuotient(sumArgs.ordersToFill[i]))])

RoundedTotal ==
    SumOf([i \in 1..Len(sumArgs.ordersToFill) |->
              IF sumArgs.side = "Buy" THEN sumArgs.amounts[i]
              ELSE multipliedBy(sumArgs.amounts[i], RoundedQuotient(sumArgs.ordersToFill[i]))])

\* C6: sumTakerAssetFillableOrders throws, and returns no value, whenever the
\* two lists differ in length, and returns zero when both are empty.
C6_LengthCheck ==
    Summed =>
        /\ ~SameLengths => sumResult.threw /\ sumResult.value = <<>>
        /\ (sumArgs.ordersToFill = <<>> /\ sumArgs.amounts = <<>>) =>
               ~sumResult.threw /\ sumResult.value = <<FromInt(0)>>

\* fewer orders than amounts were handed over
C6_Witness ==
    /\ Summed
    /\ Len(sumArgs.ordersToFill) = 1
    /\ Len(sumArgs.amounts) = 2
    /\ sumResult.threw

\* C7 as claimed: for lists of equal length the result is the sum of
\* amounts[i] x price[i], with price 1 on a Buy and the quotient
\* makerAssetAmount / takerAssetAmount on a Sell.
C7_ExactQuotientSum ==
    (Summed /\ SameLengths) =>
        ~sumResult.threw /\ eq(sumResult.value[1], ExactTotal)

\* C7 as amended: the same sum, the Sell price being the quotient rounded
\* half-up to the decimal places BigNumber division keeps; on a Buy the result
\* is exactly the sum of the amounts.
C7_RoundedQuotientSum ==
    (Summed /\ SameLengths) =>
        /\ ~sumResult.threw
        /\ sumResult.value[1] = RoundedTotal
        /\ sumArgs.side = "Buy" => sumResult.value[1] = SumOf(sumArgs.amounts)

\* a Sell of two orders, one of them priced by a quotient that does not
\* terminate, so that the result is not the exact total
C7_Witness ==
    /\ Summed
    /\ sumArgs.side = "Sell"
    /\ Len(sumArgs.ordersToFill) = 2
    /\ Len(sumArgs.amounts) = 2
    /\ ~eq(sumResult.value[1], ExactTotal)

=============================================================================
